---------------------------- MODULE Spec2Model ----------------------------
(***************************************************************************)
(* A model of MarkUpDownBot (src/bot.py).                                  *)
(*                                                                         *)
(* A Python str is a sequence of one-character strings.  Characters the    *)
(* TLA+ lexer cannot hold in a string literal are written as named tokens: *)
(* BACKTICK is '`', BSLASH is '\', NL is the newline, QUOT is '"'.         *)
(*                                                                         *)
(* Four specifications share the variables; each leaves the variables of   *)
(* the others at their initial value:                                      *)
(*   SpecDetect   detect_message_text_formatting on bounded messages       *)
(*   SpecCaption  get_error_caption on bounded texts and error messages    *)
(*   SpecFence    markdown serialisation of a code block, round trips      *)
(*   SpecBot      the handlers answer_on_message and modify_message on the *)
(*                event loop, with the Telegram server as environment      *)
(***************************************************************************)
EXTENDS Integers, Sequences, FiniteSets, TLC

VARIABLES
    message,        \* SpecDetect: the Message given to detect_message_text_formatting
    detected,       \* SpecDetect: its locals and return value once it has run
    bad_text,       \* SpecCaption: get_error_caption's first argument
    exc_message,    \* SpecCaption: get_error_caption's second argument
    caption,        \* SpecCaption: its locals and outcome once it has run
    rich,           \* SpecFence: the message as the server holds it (text + entities)
    md_string,      \* SpecFence: the last markdown serialisation of it
    first_md,       \* SpecFence: the first markdown serialisation of it
    rounds,         \* SpecFence: number of completed serialise/parse round trips
    bot_parse_mode,     \* SpecBot: bot.parse_mode (process-wide)
    url_patched,        \* SpecBot: dont_change_plain_urls is installed
    escape_patched,     \* SpecBot: dont_escape_md is installed
    running,            \* SpecBot: the invocation the event loop is executing, or NoOne
    handlers,           \* SpecBot: per invocation: handler, position, locals
    chat_message,       \* SpecBot: the bot's message in the chat, as the server holds it
    updates             \* SpecBot: number of updates dispatched so far

detect_vars  == <<message, detected>>
caption_vars == <<bad_text, exc_message, caption>>
fence_vars   == <<rich, md_string, first_md, rounds>>
bot_vars     == <<bot_parse_mode, url_patched, escape_patched, running, handlers,
                  chat_message, updates>>
vars == <<message, detected, bad_text, exc_message, caption, rich, md_string,
          first_md, rounds, bot_parse_mode, url_patched, escape_patched, running,
          handlers, chat_message, updates>>

---------------------------------------------------------------------------
(* Characters and str methods                                              *)

BACKTICK == "BACKTICK"
BSLASH   == "BSLASH"
NL       == "NL"
QUOT     == "QUOT"

Max(a, b) == IF a > b THEN a ELSE b
Min(a, b) == IF a < b THEN a ELSE b

\* str.count(c) for a one-character c
RECURSIVE Count(_, _)
Count(s, c) ==
    IF s = <<>> THEN 0
    ELSE (IF Head(s) = c THEN 1 ELSE 0) + Count(Tail(s), c)

\* str.replace(old, new) for a one-character old
RECURSIVE Replace(_, _, _)
Replace(s, old, new) ==
    IF s = <<>> THEN <<>>
    ELSE (IF Head(s) = old THEN new ELSE <<Head(s)>>) \o Replace(Tail(s), old, new)

\* s[start:stop] of Python, 0-based, stop exclusive, start >= 0, clipped to the string
Slice(s, start, stop) ==
    LET lo == Min(Max(start, 0), Len(s))
        hi == Min(Max(stop, 0), Len(s))
    IN  IF hi <= lo THEN <<>> ELSE SubSeq(s, lo + 1, hi)

\* ' ' * n of Python (empty when n <= 0)
Spaces(n) == IF n <= 0 THEN <<>> ELSE [i \in 1..n |-> " "]

\* all sequences over S of length lo..hi
SeqsOf(S, lo, hi) == UNION {[1..n -> S] : n \in lo..hi}

---------------------------------------------------------------------------
(* aiogram.utils.markdown, as imported at src/bot.py:9-11                  *)

LIST_MD_SYMBOLS == <<"*", "_", BACKTICK, "[">>

Fence == <<BACKTICK, BACKTICK, BACKTICK>>

\* the library's table of (opening, closing) delimiters, before src/bot.py patches it
aiogram_MD_SYMBOLS ==
    << <<  <<"*">>, <<"*">>  >>,
       <<  <<"_">>, <<"_">>  >>,
       <<  <<BACKTICK>>, <<BACKTICK>>  >>,
       <<  Fence \o <<NL>>, <<NL>> \o Fence  >>,
       <<  <<"<", "b", ">">>, <<"<", "/", "b", ">">>  >>,
       <<  <<"<", "i", ">">>, <<"<", "/", "i", ">">>  >>,
       <<  <<"<", "c", "o", "d", "e", ">">>, <<"<", "/", "c", "o", "d", "e", ">">>  >>,
       <<  <<"<", "p", "r", "e", ">">>, <<"<", "/", "p", "r", "e", ">">>  >> >>

\* the table without the patch of src/bot.py:61-63
MD_SYMBOLS_unpatched == aiogram_MD_SYMBOLS

\* markdown.MD_SYMBOLS after src/bot.py:61-63 (Python's [:3] and [4:] are 1..3 and 5..8 here)
MD_SYMBOLS ==
    SubSeq(aiogram_MD_SYMBOLS, 1, 3)
      \o << << Fence \o <<NL>>, Fence >> >>
      \o SubSeq(aiogram_MD_SYMBOLS, 5, Len(aiogram_MD_SYMBOLS))

\* _md(string, symbols): symbols[0] + string + symbols[1]
Wrap(s, symbols) == symbols[1] \o s \o symbols[2]

\* _escape: for symbol in LIST_MD_SYMBOLS: s = s.replace(symbol, '\\' + symbol)
RECURSIVE EscapeWith(_, _)
EscapeWith(s, symbols) ==
    IF symbols = <<>> THEN s
    ELSE EscapeWith(Replace(s, Head(symbols), <<BSLASH, Head(symbols)>>), Tail(symbols))

escape_md(s) == EscapeWith(s, LIST_MD_SYMBOLS)

HTML_QUOTES_MAP(c) ==
    CASE c = "<"  -> <<"&", "l", "t", ";">>
      [] c = ">"  -> <<"&", "g", "t", ";">>
      [] c = "&"  -> <<"&", "a", "m", "p", ";">>
      [] c = QUOT -> <<"&", "q", "u", "o", "t", ";">>
      [] OTHER    -> <<c>>

RECURSIVE quote_html(_)
quote_html(s) ==
    IF s = <<>> THEN <<>> ELSE HTML_QUOTES_MAP(Head(s)) \o quote_html(Tail(s))

bold(s)   == Wrap(s, MD_SYMBOLS[1])
italic(s) == Wrap(s, MD_SYMBOLS[2])
code(s)   == Wrap(s, MD_SYMBOLS[3])
pre(s)    == Wrap(s, MD_SYMBOLS[4])
hbold(s)   == Wrap(quote_html(s), MD_SYMBOLS[5])
hitalic(s) == Wrap(quote_html(s), MD_SYMBOLS[6])
hcode(s)   == Wrap(quote_html(s), MD_SYMBOLS[7])
hpre(s)    == Wrap(quote_html(s), MD_SYMBOLS[8])
link(title, url)  == <<"[">> \o title \o <<"]", "(">> \o url \o <<")">>
hlink(title, url) ==
    <<"<", "a", " ", "h", "r", "e", "f", "=", QUOT>> \o url \o <<QUOT, ">">>
      \o quote_html(title) \o <<"<", "/", "a", ">">>

---------------------------------------------------------------------------
(* aiogram.types.Message.md_text / html_text (parse_entities)              *)
(* An entity is [type, offset, length, url]; offsets count characters of   *)
(* the text (the model's characters are all one UTF-16 unit wide).         *)

EntityTypes == {"bold", "italic", "code", "pre", "url", "text_link", "mention"}

\* the URL a text_link entity carries
LinkUrl == <<"u">>

\* MessageEntityType.URL, which dont_change_plain_urls replaces by 'NOT URL'
MessageEntityType_URL(patched) == IF patched THEN "NOT URL" ELSE "url"

\* MessageEntity.parse(text, as_html)
EntityParse(e, text, as_html, urlPatched) ==
    LET entity_text == SubSeq(text, e.offset + 1, e.offset + e.length)
    IN  CASE e.type = "bold"   -> IF as_html THEN hbold(entity_text) ELSE bold(entity_text)
          [] e.type = "italic" -> IF as_html THEN hitalic(entity_text) ELSE italic(entity_text)
          [] e.type = "pre"    -> IF as_html THEN hpre(entity_text) ELSE pre(entity_text)
          [] e.type = "code"   -> IF as_html THEN hcode(entity_text) ELSE code(entity_text)
          [] e.type = MessageEntityType_URL(urlPatched) ->
                IF as_html THEN hlink(entity_text, entity_text)
                ELSE link(entity_text, entity_text)
          [] e.type = "text_link" ->
                IF as_html THEN hlink(entity_text, e.url) ELSE link(entity_text, e.url)
          [] OTHER -> entity_text

\* sorted(entities, key=lambda item: item.offset), a stable insertion sort
RECURSIVE InsertByOffset(_, _)
InsertByOffset(e, sorted) ==
    IF sorted = <<>> THEN <<e>>
    ELSE IF e.offset < Head(sorted).offset THEN <<e>> \o sorted
    ELSE <<Head(sorted)>> \o InsertByOffset(e, Tail(sorted))

RECURSIVE SortByOffset(_)
SortByOffset(ents) ==
    IF ents = <<>> THEN <<>>
    ELSE InsertByOffset(ents[Len(ents)], SortByOffset(SubSeq(ents, 1, Len(ents) - 1)))

\* quote_fn = md.quote_html if as_html else md.escape_md, looked up in the module at
\* call time, so that dont_escape_md (escape_md := lambda s: s) takes effect
quote_fn(s, as_html, escPatched) ==
    IF as_html THEN quote_html(s)
    ELSE IF escPatched THEN s ELSE escape_md(s)

RECURSIVE ParseFrom(_, _, _, _, _, _)
ParseFrom(text, ents, offset, as_html, urlPatched, escPatched) ==
    IF ents = <<>>
    THEN quote_fn(Slice(text, offset, Len(text)), as_html, escPatched)
    ELSE LET e == Head(ents)
         IN  quote_fn(Slice(text, offset, e.offset), as_html, escPatched)
               \o EntityParse(e, text, as_html, urlPatched)
               \o ParseFrom(text, Tail(ents), e.offset + e.length,
                            as_html, urlPatched, escPatched)

parse_entities(msg, as_html, urlPatched, escPatched) ==
    IF msg.entities = <<>>
    THEN quote_fn(msg.text, as_html, escPatched)
    ELSE ParseFrom(msg.text, SortByOffset(msg.entities), 0, as_html, urlPatched, escPatched)

md_text(msg, urlPatched, escPatched)   == parse_entities(msg, FALSE, urlPatched, escPatched)
html_text(msg, urlPatched, escPatched) == parse_entities(msg, TRUE, urlPatched, escPatched)

---------------------------------------------------------------------------
(* detect_message_text_formatting, src/bot.py:98-124                       *)

None == "None"

\* a mutant of the decision: the first comparison is >= instead of >
ChooseParseMode_ge(escaped_with_entities, escaped_html, escaped_md) ==
    IF escaped_with_entities >= Max(escaped_html, escaped_md) THEN None
    ELSE IF escaped_html > escaped_md THEN "html"
    ELSE "markdown"

\* src/bot.py:117-122
ChooseParseMode(escaped_with_entities, escaped_html, escaped_md) ==
    IF escaped_with_entities > Max(escaped_html, escaped_md) THEN None
    ELSE IF escaped_html > escaped_md THEN "html"
    ELSE "markdown"

\* a mutant of the with statement: dont_change_plain_urls is left out
detect_with_no_url_patch == {"dont_escape_md"}

\* src/bot.py:112, the patchers the with statement installs around message.md_text
detect_with == {"dont_change_plain_urls", "dont_escape_md"}

\* src/bot.py:104-110 and 115-124, given the with_entities of line 113
detect_locals(msg, with_entities) ==
    LET raw_text == msg.text
        before_escape_md   == Count(raw_text, BSLASH)
        before_escape_html == Count(raw_text, "&")
        escaped_md   == Count(escape_md(raw_text), BSLASH) - before_escape_md
        escaped_html == Count(quote_html(raw_text), "&") - before_escape_html
        escaped_with_entities == Count(escape_md(with_entities), BSLASH) - before_escape_md
    IN  [ done |-> TRUE,
          escaped_md |-> escaped_md,
          escaped_html |-> escaped_html,
          with_entities |-> with_entities,
          escaped_with_entities |-> escaped_with_entities,
          parse_mode |-> ChooseParseMode(escaped_with_entities, escaped_html, escaped_md) ]

detect_message_text_formatting(msg) ==
    detect_locals(msg, md_text(msg, "dont_change_plain_urls" \in detect_with,
                                    "dont_escape_md" \in detect_with))

NotDetected ==
    [ done |-> FALSE, escaped_md |-> 0, escaped_html |-> 0, with_entities |-> <<>>,
      escaped_with_entities |-> 0, parse_mode |-> None ]

---------------------------------------------------------------------------
(* Bounded messages                                                        *)

MaxTextLen  == 2
MaxEntities == 1

DetectAlphabet == {"a", "*", BSLASH, "<", "&"}

EntitiesOn(n) ==
    { [type |-> t, offset |-> o, length |-> l, url |-> IF t = "text_link" THEN LinkUrl ELSE <<>>] :
        t \in EntityTypes, o \in 0..(n - 1), l \in 1..n }

\* the server's entities lie inside the text and do not overlap
WellFormed(n, ents) ==
    /\ \A i \in 1..Len(ents) : ents[i].offset + ents[i].length <= n
    /\ \A i, j \in 1..Len(ents) :
          i # j => \/ ents[i].offset + ents[i].length <= ents[j].offset
                   \/ ents[j].offset + ents[j].length <= ents[i].offset

MessagesOver(alphabet, maxLen, maxEnts) ==
    UNION { { [text |-> t, entities |-> es] :
                es \in { x \in SeqsOf(EntitiesOn(Len(t)), 0, maxEnts) : WellFormed(Len(t), x) } } :
            t \in SeqsOf(alphabet, 1, maxLen) }

NoMessage == [text |-> <<>>, entities |-> <<>>]

---------------------------------------------------------------------------
(* Idle values of each specification's variables                           *)

NoOne == "NoOne"

DetectIdle  == message = NoMessage /\ detected = NotDetected
CaptionIdle == bad_text = <<>> /\ exc_message = <<>> /\ caption = [done |-> FALSE]
FenceIdle   == rich = NoMessage /\ md_string = <<>> /\ first_md = <<>> /\ rounds = 0
BotIdle     ==
    /\ bot_parse_mode = None /\ url_patched = FALSE /\ escape_patched = FALSE
    /\ running = NoOne /\ handlers = <<>> /\ chat_message = NoMessage /\ updates = 0

---------------------------------------------------------------------------
(* SpecDetect                                                              *)

InitDetect ==
    /\ message \in MessagesOver(DetectAlphabet, MaxTextLen, MaxEntities)
    /\ detected = NotDetected
    /\ CaptionIdle /\ FenceIdle /\ BotIdle

Detect ==
    /\ ~detected.done
    /\ detected' = detect_message_text_formatting(message)
    /\ UNCHANGED <<message, caption_vars, fence_vars, bot_vars>>

NextDetect == Detect

SpecDetect == InitDetect /\ [][NextDetect]_vars

\* number of characters of s that lie in set S
CountIn(s, S) == Cardinality({i \in 1..Len(s) : s[i] \in S})

MdSpecial   == {"*", "_", BACKTICK, "["}
HtmlCounted == {"<", ">", QUOT}

\* C1: detect_message_text_formatting returns None exactly when entityEscapes >
\* max(htmlEscapes, mdEscapes), otherwise 'html' exactly when htmlEscapes > mdEscapes,
\* otherwise 'markdown' (every tie gives 'markdown'), and nothing else; where
\* mdEscapes is the number of markdown-special characters of the raw text,
\* htmlEscapes the number of '&' that quoting adds to it (one per <, > and ", none
\* for an '&', which '&amp;' replaces one for one) and entityEscapes the number of
\* backslashes of the escaped rendering minus the backslashes of the raw text.
C1_DecisionOverCounts ==
    detected.done =>
        LET em  == detected.escaped_md
            eh  == detected.escaped_html
            ewe == detected.escaped_with_entities
            pm  == detected.parse_mode
        IN  /\ pm \in {None, "html", "markdown"}
            /\ (pm = None) <=> (ewe > Max(eh, em))
            /\ (pm = "html") <=> (ewe <= Max(eh, em) /\ eh > em)
            /\ (pm = "markdown") <=> (ewe <= Max(eh, em) /\ eh <= em)
            /\ em = CountIn(message.text, MdSpecial)
            /\ eh = CountIn(message.text, HtmlCounted)
            /\ ewe = CountIn(detected.with_entities, MdSpecial \cup {BSLASH})
                       - CountIn(message.text, {BSLASH})

\* C1 witness: a double tie with special characters present gives 'markdown'
C1_TieWitness ==
    /\ detected.done
    /\ detected.escaped_md > 0
    /\ detected.escaped_html = detected.escaped_md
    /\ detected.escaped_with_entities = detected.escaped_md
    /\ detected.parse_mode = "markdown"

PassThroughTypes == {"url", "mention"}

\* C10: for a message with no entities, or whose only entities are plain URLs (or
\* others that add no delimiter), the rendering equals the raw text, entityEscapes
\* equals mdEscapes and the result is not None.
C10_NoneNeedsDelimiters ==
    (detected.done /\ \A i \in 1..Len(message.entities) :
                          message.entities[i].type \in PassThroughTypes)
        => /\ detected.with_entities = message.text
           /\ detected.escaped_with_entities = detected.escaped_md
           /\ detected.parse_mode # None

\* C10 witness: a message with a plain-URL entity over special characters was decided
C10_UrlOnlyWitness ==
    /\ detected.done
    /\ Len(message.entities) = 1
    /\ message.entities[1].type = "url"
    /\ detected.escaped_md > 0
    /\ detected.parse_mode = "markdown"

---------------------------------------------------------------------------
(* get_error_caption, src/bot.py:66-95                                     *)
(*                                                                         *)
(* The text may hold multi-byte characters: E2 stands for a character of   *)
(* two UTF-8 bytes (such as e-acute), E3 for one of three (such as the     *)
(* euro sign).  A byte is [c, k]: the k-th byte of character c.            *)
(* The error description is a sequence of tokens [w, n]: the word w, or,   *)
(* when w = NUM, the decimal numeral of n; OFFSET is an occurrence of the  *)
(* substring 'offset'.                                                     *)

Utf8Len(c) == CASE c = "E2" -> 2 [] c = "E3" -> 3 [] OTHER -> 1

\* str.encode()
RECURSIVE Encode(_)
Encode(s) ==
    IF s = <<>> THEN <<>>
    ELSE [k \in 1..Utf8Len(Head(s)) |-> [c |-> Head(s), k |-> k]] \o Encode(Tail(s))

\* bytes.decode(): the characters, or UnicodeDecodeError
RECURSIVE Decode(_)
Decode(bytes) ==
    IF bytes = <<>> THEN [ok |-> TRUE, text |-> <<>>]
    ELSE LET b == Head(bytes)
             n == Utf8Len(b.c)
         IN  IF /\ b.k = 1
                /\ Len(bytes) >= n
                /\ \A k \in 1..n : bytes[k] = [c |-> b.c, k |-> k]
             THEN LET rest == Decode(SubSeq(bytes, n + 1, Len(bytes)))
                  IN  [ok |-> rest.ok, text |-> <<b.c>> \o rest.text]
             ELSE [ok |-> FALSE, text |-> <<>>]

\* s[:n] of Python, n of either sign
PrefixTo(s, n) ==
    IF n >= 0 THEN SubSeq(s, 1, Min(n, Len(s)))
    ELSE SubSeq(s, 1, Max(Len(s) + n, 0))

NUM    == "NUM"
OFFSET == [w |-> "offset", n |-> 0]
Num(n) == [w |-> NUM, n |-> n]
Word(w) == [w |-> w, n |-> 0]

\* index of the last OFFSET token, 0 when there is none
LastOffset(msg) ==
    LET at == {i \in 1..Len(msg) : msg[i] = OFFSET}
    IN  IF at = {} THEN 0 ELSE CHOOSE i \in at : \A j \in at : j <= i

\* a mutant of the except clause: only the plain ValueError is caught
Caught_plain_only(kind) == kind = "ValueError"

\* src/bot.py:80, except ValueError: UnicodeDecodeError is a subclass of ValueError
Caught(kind) == kind \in {"ValueError", "UnicodeDecodeError"}

\* src/bot.py:75-78: the exception the try body raises ("none" when it does not) and
\* the character offset it computes
TryBody(text, msg) ==
    LET at   == LastOffset(msg)
        tail == SubSeq(msg, at + 1, Len(msg))
    IN  IF at = 0
        THEN [exc |-> "ValueError", offset |-> 0]            \* unpacking one value
        ELSE IF ~(Len(tail) = 1 /\ tail[1].w = NUM)
        THEN [exc |-> "ValueError", offset |-> 0]            \* int()
        ELSE LET decoded == Decode(PrefixTo(Encode(text), tail[1].n))
             IN  IF decoded.ok
                 THEN [exc |-> "none", offset |-> Len(decoded.text)]
                 ELSE [exc |-> "UnicodeDecodeError", offset |-> 0]

\* src/bot.py:83
CHARS_BEFORE == 25

\* a mutant of the excerpt's start: offset - chars_before
ExcerptStart_no_plus_one(offset, chars_before) == offset - chars_before

\* src/bot.py:87-88: bad_char = offset + 1; start = bad_char - chars_before
ExcerptStart(offset, chars_before) == (offset + 1) - chars_before

NoCaption ==
    [ done |-> FALSE, raised |-> "none", captioned |-> FALSE, offset |-> 0,
      chars_before |-> 0, start |-> 0, bad_line |-> <<>>, pointer_line |-> <<>>,
      returned |-> [message |-> <<>>, caption |-> <<>>] ]

get_error_caption(text, msg) ==
    LET try == TryBody(text, msg)
    IN  IF try.exc # "none"
        THEN IF Caught(try.exc)
             THEN [NoCaption EXCEPT !.done = TRUE,
                                    !.returned = [message |-> msg, caption |-> <<>>]]
             ELSE [NoCaption EXCEPT !.done = TRUE, !.raised = try.exc]
        ELSE LET offset == try.offset
                 chars_before == IF offset < CHARS_BEFORE THEN offset ELSE CHARS_BEFORE
                 start == ExcerptStart(offset, chars_before)
                 bad_line == Slice(Replace(text, NL, <<" ">>), start, offset + 5)
                 pointer_line == Spaces(chars_before - 1) \o <<"^">>
             IN  [ done |-> TRUE, raised |-> "none", captioned |-> TRUE,
                   offset |-> offset, chars_before |-> chars_before, start |-> start,
                   bad_line |-> bad_line, pointer_line |-> pointer_line,
                   returned |->
                     [ message |-> msg \o << [w |-> ", (chars offset NUM)", n |-> offset] >>,
                       caption |-> <<":", NL, NL>> \o pre(bad_line) \o <<NL>>
                                     \o code(pointer_line) ] ]

---------------------------------------------------------------------------
(* SpecCaption                                                             *)

MaxPad     == 27
MaxTextEnd == 2
MaxBeyond  == 2

CaptionAlphabet == {"*", NL, "E2", "E3"}

Pad(n) == [i \in 1..n |-> "x"]

RECURSIVE ByteLen(_)
ByteLen(s) == IF s = <<>> THEN 0 ELSE Utf8Len(Head(s)) + ByteLen(Tail(s))

\* texts: at most one character, a run of 'x', at most MaxTextEnd characters
CaptionTexts ==
    { a \o Pad(k) \o b :
        a \in SeqsOf(CaptionAlphabet, 0, 1), k \in 0..MaxPad,
        b \in SeqsOf(CaptionAlphabet, 0, MaxTextEnd) }

CantParse == Word("Can't parse entities: can't find end of the entity starting at byte")

\* descriptions for a text of n bytes: with and without 'offset', with a numeral of
\* either sign up to past the end, with a non-numeral, with words after the numeral
ExcMessages(n) ==
    {<<CantParse>>, <<CantParse, OFFSET>>, <<CantParse, OFFSET, Word("six")>>}
      \cup { <<CantParse, OFFSET, Num(b)>> : b \in (0 - MaxBeyond)..(n + MaxBeyond) }
      \cup { <<CantParse, OFFSET, Num(b), Word("bytes")>> : b \in 0..1 }
      \cup { <<OFFSET, Num(0), OFFSET, Num(b)>> : b \in 1..2 }

InitCaption ==
    /\ bad_text \in CaptionTexts
    /\ exc_message \in ExcMessages(ByteLen(bad_text))
    /\ caption = NoCaption
    /\ DetectIdle /\ FenceIdle /\ BotIdle

GetErrorCaption ==
    /\ ~caption.done
    /\ caption' = get_error_caption(bad_text, exc_message)
    /\ UNCHANGED <<bad_text, exc_message, detect_vars, fence_vars, bot_vars>>

NextCaption == GetErrorCaption

SpecCaption == InitCaption /\ [][NextCaption]_vars

\* the description ends in 'offset' followed by one numeral
ParsedOffset ==
    /\ LastOffset(exc_message) > 0
    /\ LastOffset(exc_message) = Len(exc_message) - 1
    /\ exc_message[Len(exc_message)].w = NUM

\* that numeral (read only where ParsedOffset holds)
ByteOffset == exc_message[Len(exc_message)].n

\* the byte offsets at which a character of the text starts
CharStarts(text) == { ByteLen(SubSeq(text, 1, i)) : i \in 0..(Len(text) - 1) }

\* the index (0-based) of the character that starts at byte offset b
CharAt(text, b) == CHOOSE i \in 0..(Len(text) - 1) : ByteLen(SubSeq(text, 1, i)) = b

\* C3: for a byte offset that is the first byte of a character of the text, the
\* caret of the pointer line stands in the column that this character has inside the
\* excerpt line.
C3_CaretUnderCharacter ==
    (caption.done /\ ParsedOffset /\ ByteOffset \in CharStarts(bad_text))
        => LET c     == CharAt(bad_text, ByteOffset)
               caret == Len(caption.pointer_line) - 1
           IN  /\ caption.captioned
               /\ caption.pointer_line[caret + 1] = "^"
               /\ caret = c - caption.start
               /\ caret < Len(caption.bad_line)

\* the caret is under the character for every character after the first: the
\* alignment fails at byte offset 0 only
CaretUnderCharacterAfterFirst ==
    (caption.done /\ ParsedOffset /\ ByteOffset \in CharStarts(bad_text) /\ ByteOffset > 0)
        => LET c     == CharAt(bad_text, ByteOffset)
               caret == Len(caption.pointer_line) - 1
           IN  /\ caption.captioned
               /\ caret = c - caption.start
               /\ caret < Len(caption.bad_line)
               /\ caption.bad_line[caret + 1] = Replace(bad_text, NL, <<" ">>)[c + 1]

\* the offset cannot be parsed (no 'offset', or no numeral alone after the last
\* one) or cannot be translated (its byte prefix ends inside a character)
OffsetFails ==
    \/ ~ParsedOffset
    \/ ~Decode(PrefixTo(Encode(bad_text), ByteOffset)).ok

\* C4: get_error_caption never raises; when the offset cannot be parsed or
\* translated it returns the error description unchanged, without the
\* '(chars offset ...)' suffix and without a caption; otherwise it returns the
\* description with the suffix and a caption.
C4_NeverRaises ==
    caption.done =>
        /\ caption.raised = "none"
        /\ OffsetFails =>
              /\ ~caption.captioned
              /\ caption.returned = [message |-> exc_message, caption |-> <<>>]
        /\ ~OffsetFails =>
              /\ caption.captioned
              /\ SubSeq(caption.returned.message, 1, Len(exc_message)) = exc_message
              /\ Len(caption.returned.message) = Len(exc_message) + 1
              /\ caption.returned.caption # <<>>

\* C4 witness: a byte offset inside a multi-byte character was given and the
\* description came back unchanged
C4_MidCharacterWitness ==
    /\ caption.done
    /\ ParsedOffset
    /\ ByteOffset > 0 /\ ByteOffset < ByteLen(bad_text)
    /\ ByteOffset \notin CharStarts(bad_text)
    /\ caption.returned = [message |-> exc_message, caption |-> <<>>]

\* C5 as stated: the excerpt is the text, newlines replaced by spaces, from index
\* offset - contextWindow to offset + 5, contextWindow = min(25, offset).
C5_ExcerptFromOffsetMinusWindow ==
    (caption.done /\ caption.captioned) =>
        LET cw == Min(CHARS_BEFORE, caption.offset)
        IN  caption.bad_line =
                Slice(Replace(bad_text, NL, <<" ">>), caption.offset - cw, caption.offset + 5)

\* C5 amended: the excerpt is the text, newlines replaced by spaces, from index
\* offset + 1 - contextWindow to offset + 5 (clipped to the text),
\* contextWindow = min(25, offset); it holds no newline, starts at most 24
\* characters before the offending character, and starts at index 1 when the
\* offset is below 25.
C5_ExcerptFromOffsetPlusOneMinusWindow ==
    (caption.done /\ caption.captioned) =>
        LET cw   == Min(CHARS_BEFORE, caption.offset)
            from == caption.offset + 1 - cw
            text == Replace(bad_text, NL, <<" ">>)
        IN  /\ caption.bad_line =
                  [i \in 1..(Min(caption.offset + 5, Len(text)) - Min(from, Len(text))) |->
                      text[from + i]]
            /\ \A i \in 1..Len(caption.bad_line) : caption.bad_line[i] # NL
            /\ caption.offset - from <= CHARS_BEFORE - 1
            /\ caption.offset < CHARS_BEFORE => from = 1

\* C5 witness: a caption was built at an offset past the window, over a newline
C5_LongTextWitness ==
    /\ caption.done /\ caption.captioned
    /\ caption.offset > CHARS_BEFORE
    /\ caption.chars_before = CHARS_BEFORE
    /\ \E i \in 1..Len(bad_text) :
          bad_text[i] = NL /\ i - 1 >= caption.start /\ i - 1 < caption.offset + 5

---------------------------------------------------------------------------
(* SpecFence: a message with a code block is shown as raw markdown and as  *)
(* markup in turn (the Markdown and Markup buttons of modify_message).     *)
(* The markdown parser is the server's; from_markdown models it as the     *)
(* specification describes it: a block opens with three backticks, the     *)
(* newline that follows them is not content, and everything up to the next *)
(* three backticks is.                                                     *)

StartsWith(s, p) == Len(s) >= Len(p) /\ SubSeq(s, 1, Len(p)) = p

Drop(s, n) == SubSeq(s, n + 1, Len(s))

\* number of characters of s before the first Fence, -1 when s holds none
FindFence(s) ==
    LET at == {i \in 0..Len(s) : StartsWith(Drop(s, i), Fence)}
    IN  IF at = {} THEN 0 - 1 ELSE CHOOSE i \in at : \A j \in at : i <= j

RECURSIVE MdScan(_, _, _)
MdScan(s, text, ents) ==
    IF s = <<>> THEN [text |-> text, entities |-> ents]
    ELSE IF StartsWith(s, Fence) /\ FindFence(Drop(s, 3)) >= 0
    THEN LET opened == Drop(s, 3)
             body   == IF opened # <<>> /\ Head(opened) = NL THEN Tail(opened) ELSE opened
             n      == FindFence(body)
         IN  MdScan(Drop(body, n + 3), text \o SubSeq(body, 1, n),
                    Append(ents, [type |-> "pre", offset |-> Len(text), length |-> n,
                                  url |-> <<>>]))
    ELSE IF Head(s) = BSLASH /\ Len(s) >= 2
    THEN MdScan(Drop(s, 2), Append(text, s[2]), ents)
    ELSE MdScan(Tail(s), Append(text, Head(s)), ents)

from_markdown(s) == MdScan(s, <<>>, <<>>)

MaxBlockLen   == 3
MaxRoundTrips == 2

BlockAlphabet == {"a", "*", NL}
PlainAlphabet == {"a", NL}

InitFence ==
    /\ \E before \in SeqsOf(PlainAlphabet, 0, 1), content \in SeqsOf(BlockAlphabet, 1, MaxBlockLen),
          after \in SeqsOf(PlainAlphabet, 0, 1) :
          rich = [ text |-> before \o content \o after,
                   entities |-> << [type |-> "pre", offset |-> Len(before),
                                    length |-> Len(content), url |-> <<>>] >>,
                   raw |-> FALSE ]
    /\ md_string = <<>> /\ first_md = <<>> /\ rounds = 0
    /\ DetectIdle /\ CaptionIdle /\ BotIdle

\* modify_message on 'Markdown', src/bot.py:176-186: the message becomes its md_text,
\* sent with no parse mode
ShowRawMarkdown ==
    /\ ~rich.raw
    /\ rounds <= MaxRoundTrips
    /\ LET new_text == md_text(rich, TRUE, FALSE)
       IN  /\ md_string' = new_text
           /\ first_md' = IF rounds = 0 THEN new_text ELSE first_md
           /\ rich' = [text |-> new_text, entities |-> <<>>, raw |-> TRUE]
    /\ UNCHANGED <<rounds, detect_vars, caption_vars, bot_vars>>

\* modify_message on 'Markup', src/bot.py:171-174 and 186: the text is sent again with
\* the detected parse mode, and the server parses it
ShowFormatted ==
    /\ rich.raw
    /\ rounds < MaxRoundTrips
    /\ detect_message_text_formatting(rich).parse_mode = "markdown"
    /\ LET parsed == from_markdown(rich.text)
       IN  rich' = [text |-> parsed.text, entities |-> parsed.entities, raw |-> FALSE]
    /\ rounds' = rounds + 1
    /\ UNCHANGED <<md_string, first_md, detect_vars, caption_vars, bot_vars>>

NextFence == ShowRawMarkdown \/ ShowFormatted

SpecFence == InitFence /\ [][NextFence]_vars

\* C6: with the patched delimiters, serialising a message with a code block to
\* markdown, parsing it and serialising again gives the text of the first
\* serialisation, after any number of round trips and for every block content.
C6_FenceRoundTrip ==
    (rich.raw /\ rounds >= 1) => md_string = first_md

\* C6 witness: a block whose content ends in a newline went through two round trips
C6_TrailingNewlineWitness ==
    /\ rich.raw
    /\ rounds = MaxRoundTrips
    /\ Len(first_md) > 7
    /\ SubSeq(first_md, Len(first_md) - 3, Len(first_md)) = <<NL>> \o Fence
    /\ md_string = first_md

---------------------------------------------------------------------------
(* SpecBot: answer_on_message and modify_message on the event loop         *)
(*                                                                         *)
(* The loop runs one handler at a time up to its next await: running names *)
(* the invocation that is inside such a section.  A request is logged in   *)
(* the invocation's calls when the bot method builds its payload, which    *)
(* happens in the section that calls it (Bot.send_message and              *)
(* Bot.edit_message_text read bot.parse_mode before their first await).    *)
(* The server is the environment: it accepts or rejects a request, and     *)
(* when it parses a text the outcome is any message of BotMessages.        *)

SHOW_RAW_MD    == "Markdown"
SHOW_RAW_HTML  == "HTML"
SHOW_FORMATTED == "Markup"

\* a mutant of the keyboards: the raw views get the keyboard of the formatted view
SHOW_FORMATTED_MARKUP_swapped == <<SHOW_RAW_MD, SHOW_RAW_HTML>>

\* src/bot.py:24-29
SHOW_RAW_MARKUP == <<SHOW_RAW_MD, SHOW_RAW_HTML>>

\* src/bot.py:31-33
SHOW_FORMATTED_MARKUP == <<SHOW_FORMATTED>>

Invocations == {"h1", "h2"}

MaxUpdates == 2

WholeText(t, type) == << [type |-> type, offset |-> 0, length |-> Len(t), url |-> <<>>] >>

\* the messages users send and the server's parser produces
BotMessages ==
    { [text |-> t, entities |-> es] :
        t \in {<<"a">>, <<"<">>},
        es \in {<<>>, WholeText(<<"a">>, "bold"), WholeText(<<"a">>, "url")} }

IdleSlot ==
    [ handler |-> "idle", pc |-> "idle", message |-> NoMessage, data |-> "",
      parse_mode |-> None, text |-> <<>>, markup |-> <<>>, response |-> "",
      exc |-> <<>>, calls |-> <<>>, task |-> "none", answers |-> <<>> ]

Call(method, text, parse_mode, markup) ==
    [method |-> method, text |-> text, parse_mode |-> parse_mode, markup |-> markup]

InitBot ==
    /\ bot_parse_mode = None
    /\ url_patched = FALSE
    /\ escape_patched = FALSE
    /\ running = NoOne
    /\ handlers = [h \in Invocations |-> IdleSlot]
    /\ \E r \in BotMessages :
          chat_message = [ text |-> r.text, entities |-> r.entities,
                           keyboard |-> SHOW_RAW_MARKUP, parse_mode |-> "markdown",
                           last_edit |-> "none" ]
    /\ updates = 0
    /\ DetectIdle /\ CaptionIdle /\ FenceIdle

\* a mutant of the scheduling: the loop may switch handlers after every step
Suspends_anywhere(pc) == TRUE

\* the positions at which a handler is suspended in an await
\* (src/bot.py:154, 157, 159, 186, 189, 192, 194) or has returned
Suspends(pc) ==
    pc \in {"await_send", "await_reply", "await_delete", "await_edit", "await_answer",
            "await_task", "done"}

Step(h, slot) ==
    /\ handlers' = [handlers EXCEPT ![h] = slot]
    /\ running' = IF Suspends(slot.pc) THEN NoOne ELSE h

MayRun(h) == running \in {NoOne, h}

\* the dispatcher starts a handler for a text message or for a press of a button
\* that the bot's message shows
Dispatch(h) ==
    /\ running = NoOne
    /\ handlers[h].pc \in {"idle", "done"}
    /\ updates < MaxUpdates
    /\ updates' = updates + 1
    /\ \/ \E m \in BotMessages :
            handlers' = [handlers EXCEPT ![h] =
                [IdleSlot EXCEPT !.handler = "answer_on_message", !.pc = "start",
                                 !.message = m]]
       \/ \E d \in {chat_message.keyboard[i] : i \in 1..Len(chat_message.keyboard)} :
            handlers' = [handlers EXCEPT ![h] =
                [IdleSlot EXCEPT !.handler = "modify_message", !.pc = "start",
                                 !.message = [text |-> chat_message.text,
                                              entities |-> chat_message.entities],
                                 !.data = d]]
    /\ UNCHANGED <<bot_parse_mode, url_patched, escape_patched, running, chat_message,
                   detect_vars, caption_vars, fence_vars>>

\* src/bot.py:112, entering the with statement of detect_message_text_formatting
\* (called at src/bot.py:139 and 172)
EnterDetect(h) ==
    LET slot == handlers[h]
    IN  /\ MayRun(h)
        /\ slot.pc = "start"
        /\ slot.handler = "answer_on_message" \/ slot.data = SHOW_FORMATTED
        /\ url_patched' = ("dont_change_plain_urls" \in detect_with \/ url_patched)
        /\ escape_patched' = ("dont_escape_md" \in detect_with \/ escape_patched)
        /\ Step(h, [slot EXCEPT !.pc = "detect_body"])
        /\ UNCHANGED <<bot_parse_mode, chat_message, updates,
                       detect_vars, caption_vars, fence_vars>>

\* src/bot.py:113-124 and the patchers' __exit__, then src/bot.py:141-149
\* (answer_on_message) or 172-174 (modify_message)
DetectBody(h) ==
    LET slot == handlers[h]
        formatting ==
            detect_locals(slot.message,
                          md_text(slot.message, url_patched, escape_patched)).parse_mode
    IN  /\ MayRun(h)
        /\ slot.pc = "detect_body"
        /\ escape_patched' = FALSE
        /\ IF slot.handler = "answer_on_message"
           THEN IF formatting = None
                THEN /\ bot_parse_mode' = "markdown"
                     /\ url_patched' = TRUE
                     /\ Step(h, [slot EXCEPT !.pc = "render_body",
                                             !.parse_mode = "markdown",
                                             !.markup = SHOW_RAW_MARKUP])
                ELSE /\ bot_parse_mode' = formatting
                     /\ url_patched' = FALSE
                     /\ Step(h, [slot EXCEPT !.pc = "request",
                                             !.parse_mode = formatting,
                                             !.text = slot.message.text,
                                             !.markup = SHOW_RAW_MARKUP])
           ELSE /\ bot_parse_mode' = formatting
                /\ url_patched' = FALSE
                /\ Step(h, [slot EXCEPT !.pc = "request",
                                        !.parse_mode = formatting,
                                        !.text = slot.message.text,
                                        !.markup = SHOW_RAW_MARKUP])
        /\ UNCHANGED <<chat_message, updates, detect_vars, caption_vars, fence_vars>>

\* src/bot.py:176-179, modify_message on 'Markdown' or 'HTML'
EnterRender(h) ==
    LET slot == handlers[h]
    IN  /\ MayRun(h)
        /\ slot.pc = "start"
        /\ slot.handler = "modify_message" /\ slot.data # SHOW_FORMATTED
        /\ url_patched' = TRUE
        /\ bot_parse_mode' = IF slot.data = SHOW_RAW_HTML THEN "html" ELSE "markdown"
        /\ Step(h, [slot EXCEPT !.pc = "render_body", !.markup = SHOW_FORMATTED_MARKUP])
        /\ UNCHANGED <<escape_patched, chat_message, updates,
                       detect_vars, caption_vars, fence_vars>>

\* src/bot.py:145 (answer_on_message) or 180-181 (modify_message), and the
\* patcher's __exit__
RenderBody(h) ==
    LET slot == handlers[h]
    IN  /\ MayRun(h)
        /\ slot.pc = "render_body"
        /\ url_patched' = FALSE
        /\ IF slot.handler = "answer_on_message"
           THEN /\ Step(h, [slot EXCEPT
                              !.pc = "request",
                              !.text = md_text(slot.message, url_patched, escape_patched)])
                /\ UNCHANGED bot_parse_mode
           ELSE /\ Step(h, [slot EXCEPT
                              !.pc = "request",
                              !.parse_mode = None,
                              !.text = IF slot.data = SHOW_RAW_HTML
                                       THEN html_text(slot.message, url_patched, escape_patched)
                                       ELSE md_text(slot.message, url_patched, escape_patched)])
                /\ bot_parse_mode' = None
        /\ UNCHANGED <<escape_patched, chat_message, updates,
                       detect_vars, caption_vars, fence_vars>>

\* src/bot.py:154 (bot.send_message) or 183-186 (create_task, message.edit_text): the
\* payload takes bot.parse_mode as it is now
Request(h) ==
    LET slot == handlers[h]
    IN  /\ MayRun(h)
        /\ slot.pc = "request"
        /\ IF slot.handler = "answer_on_message"
           THEN Step(h, [slot EXCEPT
                           !.pc = "await_send",
                           !.calls = Append(@, Call("send_message", slot.text,
                                                    bot_parse_mode, slot.markup))])
           ELSE Step(h, [slot EXCEPT
                           !.pc = "await_edit",
                           !.task = "pending",
                           !.calls = Append(@, Call("edit_message_text", slot.text,
                                                    bot_parse_mode, slot.markup))])
        /\ UNCHANGED <<bot_parse_mode, url_patched, escape_patched, chat_message, updates,
                       detect_vars, caption_vars, fence_vars>>

LastCall(slot) == slot.calls[Len(slot.calls)]

\* the server answers sendMessage: done, or the text does not parse
ServerSend(h) ==
    LET slot == handlers[h]
    IN  /\ running = NoOne
        /\ slot.pc = "await_send" /\ slot.response = ""
        /\ \/ handlers' = [handlers EXCEPT ![h].response = "ok"]
           \/ /\ LastCall(slot).parse_mode # None
              /\ \E b \in 0..1 :
                    handlers' = [handlers EXCEPT
                                   ![h].response = "CantParseEntities",
                                   ![h].exc = <<CantParse, OFFSET, Num(b)>>]
        /\ UNCHANGED <<bot_parse_mode, url_patched, escape_patched, running, chat_message,
                       updates, detect_vars, caption_vars, fence_vars>>

\* a mutant of the except branch: the caption is built from message.text
CaptionSource_raw(msg, message_text) == msg.text

\* src/bot.py:156, the text given to get_error_caption
CaptionSource(msg, message_text) == message_text

\* src/bot.py:155-159
AfterSend(h) ==
    LET slot == handlers[h]
    IN  /\ running = NoOne
        /\ slot.pc = "await_send" /\ slot.response # ""
        /\ IF slot.response = "CantParseEntities"
           THEN LET err_message ==
                      get_error_caption(CaptionSource(slot.message, slot.text),
                                        slot.exc).returned
                IN  Step(h, [slot EXCEPT
                               !.pc = "await_reply",
                               !.calls = Append(@, Call("reply", err_message,
                                                        "markdown", <<>>))])
           ELSE Step(h, [slot EXCEPT
                           !.pc = "await_delete",
                           !.calls = Append(@, Call("delete", <<>>, None, <<>>))])
        /\ UNCHANGED <<bot_parse_mode, url_patched, escape_patched, chat_message, updates,
                       detect_vars, caption_vars, fence_vars>>

\* the server answers the last request of the handler, which then returns
ServerDone(h) ==
    LET slot == handlers[h]
    IN  /\ running = NoOne
        /\ slot.pc \in {"await_reply", "await_delete", "await_answer"}
        /\ Step(h, [slot EXCEPT !.pc = "done"])
        /\ UNCHANGED <<bot_parse_mode, url_patched, escape_patched, chat_message, updates,
                       detect_vars, caption_vars, fence_vars>>

\* src/bot.py:183, the task of query.answer() gets its turn: the plain answer is
\* written to the connection and reaches the server
TaskRun(h) ==
    LET slot == handlers[h]
    IN  /\ running = NoOne
        /\ slot.task = "pending"
        /\ handlers' = [handlers EXCEPT ![h].task = "sent",
                                        ![h].answers = Append(@, "plain")]
        /\ UNCHANGED <<bot_parse_mode, url_patched, escape_patched, running, chat_message,
                       updates, detect_vars, caption_vars, fence_vars>>

\* the server's reply to the plain answer ends the task
TaskDone(h) ==
    LET slot == handlers[h]
    IN  /\ running = NoOne
        /\ slot.task = "sent"
        /\ handlers' = [handlers EXCEPT ![h].task = "done"]
        /\ UNCHANGED <<bot_parse_mode, url_patched, escape_patched, running, chat_message,
                       updates, detect_vars, caption_vars, fence_vars>>

\* the server answers editMessageText: the message is replaced, text and keyboard
\* together, or it is left as it is and an error comes back
ServerEdit(h) ==
    LET slot == handlers[h]
        req  == LastCall(slot)
    IN  /\ running = NoOne
        /\ slot.pc = "await_edit" /\ slot.response = ""
        /\ \/ /\ handlers' = [handlers EXCEPT ![h].response = "ok"]
              /\ IF req.parse_mode = None
                 THEN chat_message' =
                        [ text |-> req.text, entities |-> <<>>, keyboard |-> req.markup,
                          parse_mode |-> None, last_edit |-> slot.data ]
                 ELSE \E r \in BotMessages :
                        chat_message' =
                          [ text |-> r.text, entities |-> r.entities,
                            keyboard |-> req.markup, parse_mode |-> req.parse_mode,
                            last_edit |-> slot.data ]
           \/ /\ req.parse_mode # None
              /\ handlers' = [handlers EXCEPT ![h].response = "CantParseEntities",
                                              ![h].exc = <<CantParse, OFFSET, Num(0)>>]
              /\ UNCHANGED chat_message
           \/ /\ handlers' = [handlers EXCEPT ![h].response = "MessageNotModified"]
              /\ UNCHANGED chat_message
        /\ UNCHANGED <<bot_parse_mode, url_patched, escape_patched, running, updates,
                       detect_vars, caption_vars, fence_vars>>

\* src/bot.py:187-194
AfterEdit(h) ==
    LET slot == handlers[h]
    IN  /\ running = NoOne
        /\ slot.pc = "await_edit" /\ slot.response # ""
        /\ IF slot.response = "ok"
           THEN Step(h, [slot EXCEPT !.pc = "await_task"])
           ELSE Step(h, [slot EXCEPT
                           !.pc = "await_answer",
                           !.task = IF @ = "done" THEN "done" ELSE "cancelled",
                           !.answers = Append(@, slot.response)])
        /\ UNCHANGED <<bot_parse_mode, url_patched, escape_patched, chat_message, updates,
                       detect_vars, caption_vars, fence_vars>>

\* src/bot.py:194, await answer_callback
TaskAwaited(h) ==
    LET slot == handlers[h]
    IN  /\ running = NoOne
        /\ slot.pc = "await_task" /\ slot.task = "done"
        /\ Step(h, [slot EXCEPT !.pc = "done"])
        /\ UNCHANGED <<bot_parse_mode, url_patched, escape_patched, chat_message, updates,
                       detect_vars, caption_vars, fence_vars>>

NextBot ==
    \E h \in Invocations :
        \/ Dispatch(h)
        \/ EnterDetect(h)
        \/ DetectBody(h)
        \/ EnterRender(h)
        \/ RenderBody(h)
        \/ Request(h)
        \/ ServerSend(h)
        \/ AfterSend(h)
        \/ ServerDone(h)
        \/ TaskRun(h)
        \/ TaskDone(h)
        \/ ServerEdit(h)
        \/ AfterEdit(h)
        \/ TaskAwaited(h)

SpecBot == InitBot /\ [][NextBot]_vars

---------------------------------------------------------------------------
(* Claims about the handlers                                               *)

EditErrors == {"CantParseEntities", "MessageNotModified"}

\* C2: when message.edit_text raises CantParseEntities or MessageNotModified, the
\* plain acknowledgement of the callback query is never delivered: the only answer
\* sent for the query is the error answer.
C2_PlainAnswerNeverDelivered ==
    \A h \in Invocations :
        (handlers[h].handler = "modify_message" /\ handlers[h].response \in EditErrors)
            => \A i \in 1..Len(handlers[h].answers) : handlers[h].answers[i] # "plain"

\* what an invocation sends, as a function of its own update alone
ExpectedText(slot) ==
    IF slot.handler = "answer_on_message"
    THEN IF detect_message_text_formatting(slot.message).parse_mode = None
         THEN md_text(slot.message, TRUE, FALSE)
         ELSE slot.message.text
    ELSE IF slot.data = "Markup" THEN slot.message.text
    ELSE IF slot.data = "HTML" THEN html_text(slot.message, TRUE, FALSE)
    ELSE md_text(slot.message, TRUE, FALSE)

ExpectedParseMode(slot) ==
    IF slot.handler = "answer_on_message"
    THEN IF detect_message_text_formatting(slot.message).parse_mode = None
         THEN "markdown"
         ELSE detect_message_text_formatting(slot.message).parse_mode
    ELSE IF slot.data = "Markup"
         THEN detect_message_text_formatting(slot.message).parse_mode
         ELSE None

C8_DeleteIffEchoed ==
    \A h \in Invocations :
        LET slot == handlers[h]
        IN  slot.handler = "answer_on_message" =>
              /\ (\E i \in 1..Len(slot.calls) : slot.calls[i].method = "delete")
                    <=> (slot.response = "ok" /\ slot.pc \in {"await_delete", "done"})
              /\ (\E i \in 1..Len(slot.calls) : slot.calls[i].method = "reply")
                    <=> (slot.response = "CantParseEntities"
                           /\ slot.pc \in {"await_reply", "done"})
              /\ slot.pc \in {"await_delete", "done"} /\ slot.response = "ok" =>
                    /\ Len(slot.calls) = 2
                    /\ slot.calls[1].method = "send_message"
                    /\ slot.calls[2].method = "delete"
              /\ slot.pc \in {"await_reply", "done"} /\ slot.response = "CantParseEntities" =>
                    /\ Len(slot.calls) = 2
                    /\ slot.calls[1].method = "send_message"
                    /\ slot.calls[2] =
                          Call("reply",
                               get_error_caption(slot.calls[1].text, slot.exc).returned,
                               "markdown", <<>>)

\* C8 witness: an echo of a message with entities was rejected and the reply sent
C8_RejectedEchoWitness ==
    \E h \in Invocations :
        /\ handlers[h].handler = "answer_on_message"
        /\ handlers[h].pc = "done"
        /\ handlers[h].response = "CantParseEntities"
        /\ handlers[h].text # handlers[h].message.text
        /\ Len(handlers[h].calls) = 2
        /\ handlers[h].calls[2].text.caption # <<>>

\* the keyboard belongs to the view
KeyboardMatchesView ==
    /\ chat_message.last_edit \in {"Markdown", "HTML"} =>
          /\ chat_message.keyboard = <<"Markup">>
          /\ chat_message.parse_mode = None
          /\ chat_message.entities = <<>>
    /\ chat_message.last_edit \in {"Markup", "none"} =>
          /\ chat_message.keyboard = <<"Markdown", "HTML">>
          /\ chat_message.parse_mode # None

\* the message changes only in the step in which the server accepts an edit
OnlyAcceptedEditsChange ==
    chat_message' # chat_message =>
        \E h \in Invocations :
            /\ handlers[h].pc = "await_edit" /\ handlers[h].response = ""
            /\ handlers'[h].response = "ok"
            /\ chat_message'.last_edit = handlers[h].data

\* C9: after any sequence of presses the keyboard matches the view: after a
\* successful Markdown or HTML press the message is raw text sent with no parse mode
\* under the 'Markup' button, after a successful Markup press it carries the
\* 'Markdown' and 'HTML' buttons, and a press whose edit fails changes neither the
\* text nor the keyboard.
C9_KeyboardMatchesView == []KeyboardMatchesView /\ [][OnlyAcceptedEditsChange]_vars

\* C9 witness: a Markdown press succeeded and a second press failed
C9_PressFailedWitness ==
    /\ chat_message.last_edit = "Markdown"
    /\ \E h \in Invocations :
          /\ handlers[h].handler = "modify_message"
          /\ handlers[h].pc = "done"
          /\ handlers[h].response = "MessageNotModified"

=============================================================================
